---------------------------- MODULE Spec2Model ----------------------------
(***************************************************************************)
(* A state-machine model of spamdetector.cpp: the transition table built   *)
(* in main(), DFAstate::transitionWithChar, the four edge actions and the  *)
(* driver loop that feeds the automaton one input symbol at a time.        *)
(***************************************************************************)
EXTENDS Integers, Sequences, FiniteSets, TLC

(***************************************************************************)
(* Bounds of the model.                                                    *)
(***************************************************************************)
\* the scan is cut off before spamMessages grows beyond this length
MaxFlagged == 2
\* the record generator writes identifiers of at most this many digits
MaxIdDigits == 3

(***************************************************************************)
(* Characters.  A symbol is the int that file.get() returns: 0..255, or    *)
(* EOF.  Chr gives the value of the character literals the source uses.    *)
(***************************************************************************)
Chr(s) ==
    CASE s = "\t" -> 9   [] s = "\n" -> 10  [] s = "\r" -> 13  [] s = " " -> 32
      [] s = "\"" -> 34  [] s = "/" -> 47   [] s = "0" -> 48   [] s = "1" -> 49
      [] s = "2" -> 50   [] s = "3" -> 51   [] s = "9" -> 57
      [] s = "<" -> 60   [] s = ">" -> 62   [] s = "C" -> 67   [] s = "D" -> 68
      [] s = "I" -> 73   [] s = "O" -> 79   [] s = "S" -> 83   [] s = "a" -> 97
      [] s = "c" -> 99   [] s = "e" -> 101  [] s = "f" -> 102  [] s = "g" -> 103
      [] s = "i" -> 105  [] s = "l" -> 108  [] s = "m" -> 109  [] s = "n" -> 110
      [] s = "o" -> 111  [] s = "r" -> 114  [] s = "s" -> 115  [] s = "t" -> 116
      [] s = "v" -> 118  [] s = "w" -> 119  [] s = "x" -> 120

\* the text of a string literal as a sequence of symbols
Str(names) == [k \in 1..Len(names) |-> Chr(names[k])]

\* std::istream::get: every value of an unsigned char, or EOF
Symbols == 0..255
EOF == 0 - 1

\* the conversion of the int read to the char parameter of transitionWithChar
\* and of the comparators: implementation-defined, as char is signed in one
\* build and unsigned in another; the values either build can produce
ToChar(i) == IF i >= 128 THEN {i, i - 256} ELSE {i}

(***************************************************************************)
(* Comparators (typedef charComparator).                                   *)
(***************************************************************************)
\* everything, were it to accept the characters from 0 up only
everythingNonNegative(c, against) == c >= 0

everything(c, against) == TRUE

digits(c, against) == c >= Chr("0") /\ c <= Chr("9")

justChar(c, against) == c = against

\* whitespace, were the two line ends left out
whitespaceBlanksOnly(c, against) == c = Chr(" ") \/ c = Chr("\t")

whitespace(c, against) ==
    c = Chr(" ") \/ c = Chr("\t") \/ c = Chr("\r") \/ c = Chr("\n")

\* delimiters, were the double quote left out
delimitersSpaceOnly(c, against) == c = Chr(" ")

delimiters(c, against) == c = Chr(" ") \/ c = Chr("\"")

\* the call i->onSymbols(c, i->comparedTo) through the function pointer
onSymbols(which, c, against) ==
    CASE which = "everything" -> everything(c, against)
      [] which = "digits"     -> digits(c, against)
      [] which = "justChar"   -> justChar(c, against)
      [] which = "whitespace" -> whitespace(c, against)
      [] which = "delimiters" -> delimiters(c, against)

(***************************************************************************)
(* transitionRecord and the state names.                                   *)
(***************************************************************************)
\* the default of the parameter `what`: no char has this value
NoChar == 0 - 129

transitionRecord(which, where, does, what) ==
    [onSymbols |-> which, to |-> where, doing |-> does, comparedTo |-> what]

\* a transition added with the literal c to compare against and no action
OnChar(c, where) == transitionRecord("justChar", where, "NULL", Chr(c))
\* a transition added with a class comparator and no action
OnClass(which, where) == transitionRecord(which, where, "NULL", NoChar)
\* a transition added with a class comparator and an action
OnClassDo(which, where, does) == transitionRecord(which, where, does, NoChar)

(***************************************************************************)
(* The transition table: for each state the transitions added to it, in    *)
(* the order of the addTransition calls.                                   *)
(***************************************************************************)
\* lines 213-270 of main()
HeaderRules ==
    ("start" :> <<OnChar("<", "openDoc_0"), OnClass("everything", "start")>>) @@
    ("openDoc_0" :> <<OnChar("D", "openDoc_1"), OnClass("everything", "start")>>) @@
    ("openDoc_1" :> <<OnChar("O", "openDoc_2"), OnClass("everything", "start")>>) @@
    ("openDoc_2" :> <<OnChar("C", "openDoc_3"), OnClass("everything", "start")>>) @@
    ("openDoc_3" :> <<transitionRecord("justChar", "openDoc_4", "newMsg", Chr(">")),
         OnClass("everything", "start")>>) @@
    ("openDoc_4" :> <<OnClass("whitespace", "openDoc_4"),
         OnChar("<", "openDocID_0"),
         OnClass("everything", "start")>>) @@
    ("openDocID_0" :> <<OnChar("D", "openDocID_1"), OnClass("everything", "start")>>) @@
    ("openDocID_1" :> <<OnChar("O", "openDocID_2"), OnClass("everything", "start")>>) @@
    ("openDocID_2" :> <<OnChar("C", "openDocID_3"), OnClass("everything", "start")>>) @@
    ("openDocID_3" :> <<OnChar("I", "openDocID_4"), OnClass("everything", "start")>>) @@
    ("openDocID_4" :> <<OnChar("D", "openDocID_5"), OnClass("everything", "start")>>) @@
    ("openDocID_5" :> <<OnChar(">", "openDocID_6"), OnClass("everything", "start")>>) @@
    ("openDocID_6" :> <<OnClass("whitespace", "openDocID_6"),
         OnChar("m", "msg_0"),
         OnClass("everything", "start")>>) @@
    ("msg_0" :> <<OnChar("s", "msg_1"), OnClass("everything", "start")>>) @@
    ("msg_1" :> <<OnChar("g", "msg_2"), OnClass("everything", "start")>>) @@
    ("msg_2" :> <<OnClassDo("digits", "msgdig_0", "handleMIDdig"),
         OnClass("everything", "start")>>) @@
    ("msgdig_0" :> <<OnChar("<", "closeDocID_0"),
         OnClass("whitespace", "msgdig_1"),
         OnClassDo("digits", "msgdig_1", "handleMIDdig"),
         OnClass("everything", "start")>>) @@
    ("msgdig_1" :> <<OnChar("<", "closeDocID_0"),
         OnClass("whitespace", "msgdig_1"),
         OnClass("everything", "start")>>) @@
    ("closeDocID_0" :> <<OnChar("/", "closeDocID_1"), OnClass("everything", "start")>>) @@
    ("closeDocID_1" :> <<OnChar("D", "closeDocID_2"), OnClass("everything", "start")>>) @@
    ("closeDocID_2" :> <<OnChar("O", "closeDocID_3"), OnClass("everything", "start")>>) @@
    ("closeDocID_3" :> <<OnChar("C", "closeDocID_4"), OnClass("everything", "start")>>) @@
    ("closeDocID_4" :> <<OnChar("I", "closeDocID_5"), OnClass("everything", "start")>>) @@
    ("closeDocID_5" :> <<OnChar("D", "closeDocID_6"), OnClass("everything", "start")>>) @@
    ("closeDocID_6" :> <<OnChar(">", "closeDocID_7"), OnClass("everything", "start")>>)

\* SubjectRules, were the body to begin at the first newline after </DOCID>
SubjectRulesOneNewline ==
    ("closeDocID_7" :> <<OnChar("\n", "delimited"), OnClass("everything", "closeDocID_7")>>) @@
    ("subject" :> <<OnChar("\n", "delimited"),
         OnClass("whitespace", "subject"),
         OnClass("everything", "closeDocID_7")>>)

\* SubjectRules, were a line with text after a newline to fall back to start as
\* the marker states do
SubjectRulesToStart ==
    ("closeDocID_7" :> <<OnChar("\n", "subject"), OnClass("everything", "closeDocID_7")>>) @@
    ("subject" :> <<OnChar("\n", "delimited"),
         OnClass("whitespace", "subject"),
         OnClass("everything", "start")>>)

\* lines 273-277 of main()
SubjectRules ==
    ("closeDocID_7" :> <<OnChar("\n", "subject"), OnClass("everything", "closeDocID_7")>>) @@
    ("subject" :> <<OnChar("\n", "delimited"),
         OnClass("whitespace", "subject"),
         OnClass("everything", "closeDocID_7")>>)

\* lines 280-288 of main()
ScanRules ==
    ("not-delimited" :> <<OnChar("<", "closeDoc_0"),
         OnClass("delimiters", "delimited"),
         OnClass("everything", "not-delimited")>>) @@
    ("delimited" :> <<OnChar("f", "free_stuff_0"),
         OnChar("w", "win_0"),
         OnChar("<", "closeDoc_0"),
         OnClass("delimiters", "delimited"),
         OnClass("everything", "not-delimited")>>)

\* IsSpamRules, were isSpam to go on scanning instead of looping on itself
IsSpamRulesScanning ==
    ("isSpam" :> <<OnChar("<", "closeDocSpam_0"), OnClass("everything", "delimited")>>)

\* lines 291-292 of main()
IsSpamRules ==
    ("isSpam" :> <<OnChar("<", "closeDocSpam_0"), OnClass("everything", "isSpam")>>)

\* lines 295-309 of main()
CloseDocRules ==
    ("closeDoc_0" :> <<OnChar("/", "closeDoc_1"),
         OnClass("delimiters", "delimited"),
         OnClass("everything", "not-delimited")>>) @@
    ("closeDoc_1" :> <<OnChar("D", "closeDoc_2"),
         OnClass("delimiters", "delimited"),
         OnClass("everything", "not-delimited")>>) @@
    ("closeDoc_2" :> <<OnChar("O", "closeDoc_3"),
         OnClass("delimiters", "delimited"),
         OnClass("everything", "not-delimited")>>) @@
    ("closeDoc_3" :> <<OnChar("C", "closeDoc_4"),
         OnClass("delimiters", "delimited"),
         OnClass("everything", "not-delimited")>>) @@
    ("closeDoc_4" :> <<OnChar(">", "start"),
         OnClass("delimiters", "delimited"),
         OnClass("everything", "not-delimited")>>)

\* lines 312-321 of main()
CloseDocSpamRules ==
    ("closeDocSpam_0" :> <<OnChar("/", "closeDocSpam_1"), OnClass("everything", "isSpam")>>) @@
    ("closeDocSpam_1" :> <<OnChar("D", "closeDocSpam_2"), OnClass("everything", "isSpam")>>) @@
    ("closeDocSpam_2" :> <<OnChar("O", "closeDocSpam_3"), OnClass("everything", "isSpam")>>) @@
    ("closeDocSpam_3" :> <<OnChar("C", "closeDocSpam_4"), OnClass("everything", "isSpam")>>) @@
    ("closeDocSpam_4" :> <<OnChar(">", "start"), OnClass("everything", "isSpam")>>)

\* lines 324-336 of main()
WinRules ==
    ("win_0" :> <<OnChar("i", "win_1"),
         OnClass("delimiters", "delimited"),
         OnClass("everything", "not-delimited")>>) @@
    ("win_1" :> <<OnChar("n", "win_2"),
         OnClass("delimiters", "delimited"),
         OnClass("everything", "not-delimited")>>) @@
    ("win_2" :> <<OnChar("n", "win_3"),
         OnClassDo("delimiters", "isSpam", "recordSpam"),
         OnClass("everything", "not-delimited")>>) @@
    ("win_3" :> <<OnChar("e", "winners_0"),
         OnChar("i", "winnings_0"),
         OnClass("delimiters", "delimited"),
         OnClass("everything", "not-delimited")>>)

\* lines 339-346 of main()
WinnersRules ==
    ("winners_0" :> <<OnChar("r", "winners_1"),
         OnClass("delimiters", "delimited"),
         OnClass("everything", "not-delimited")>>) @@
    ("winners_1" :> <<OnChar("s", "winners_2"),
         OnClassDo("delimiters", "isSpam", "recordSpam"),
         OnClass("everything", "not-delimited")>>) @@
    ("winners_2" :> <<OnClassDo("delimiters", "isSpam", "recordSpam"),
         OnClass("everything", "not-delimited")>>)

\* lines 349-359 of main()
WinningsRules ==
    ("winnings_0" :> <<OnChar("n", "winnings_1"),
         OnClass("delimiters", "delimited"),
         OnClass("everything", "not-delimited")>>) @@
    ("winnings_1" :> <<OnChar("g", "winnings_2"),
         OnClass("delimiters", "delimited"),
         OnClass("everything", "not-delimited")>>) @@
    ("winnings_2" :> <<OnChar("s", "winnings_3"),
         OnClass("delimiters", "delimited"),
         OnClass("everything", "not-delimited")>>) @@
    ("winnings_3" :> <<OnClassDo("delimiters", "isSpam", "recordSpam"),
         OnClass("everything", "not-delimited")>>)

\* lines 362-382 of main()
FreeStuffRules ==
    ("free_stuff_0" :> <<OnChar("r", "free_stuff_1"),
         OnClass("delimiters", "delimited"),
         OnClass("everything", "not-delimited")>>) @@
    ("free_stuff_1" :> <<OnChar("e", "free_stuff_2"),
         OnClass("delimiters", "delimited"),
         OnClass("everything", "not-delimited")>>) @@
    ("free_stuff_2" :> <<OnChar("e", "free_stuff_3"),
         OnClass("delimiters", "delimited"),
         OnClass("everything", "not-delimited")>>) @@
    ("free_stuff_3" :> <<OnChar(" ", "free_stuff_4"),
         OnChar("\"", "delimited"),
         OnClass("everything", "not-delimited")>>) @@
    ("free_stuff_4" :> <<OnChar("f", "free_stuff_0"),
         OnChar("w", "win_0"),
         OnChar("<", "closeDoc_0"),
         OnChar("a", "free_access_0"),
         OnChar("s", "free_software_0"),
         OnChar("t", "free_trials_0"),
         OnChar("v", "free_vacation_0"),
         OnClass("delimiters", "delimited"),
         OnClass("everything", "not-delimited")>>)

\* lines 384-400 of main()
FreeAccessRules ==
    ("free_access_0" :> <<OnChar("c", "free_access_1"),
         OnClass("delimiters", "delimited"),
         OnClass("everything", "not-delimited")>>) @@
    ("free_access_1" :> <<OnChar("c", "free_access_2"),
         OnClass("delimiters", "delimited"),
         OnClass("everything", "not-delimited")>>) @@
    ("free_access_2" :> <<OnChar("e", "free_access_3"),
         OnClass("delimiters", "delimited"),
         OnClass("everything", "not-delimited")>>) @@
    ("free_access_3" :> <<OnChar("s", "free_access_4"),
         OnClass("delimiters", "delimited"),
         OnClass("everything", "not-delimited")>>) @@
    ("free_access_4" :> <<OnChar("s", "free_access_5"),
         OnClass("delimiters", "delimited"),
         OnClass("everything", "not-delimited")>>) @@
    ("free_access_5" :> <<OnClassDo("delimiters", "isSpam", "recordSpam"),
         OnClass("everything", "not-delimited")>>)

\* lines 402-411 of main()
FreeSoftwareRules ==
    ("free_software_0" :> <<OnChar("o", "free_software_1"),
         OnClass("delimiters", "delimited"),
         OnClass("everything", "not-delimited")>>) @@
    ("free_software_1" :> <<OnChar("f", "free_software_2"),
         OnClass("delimiters", "delimited"),
         OnClass("everything", "not-delimited")>>) @@
    ("free_software_2" :> <<OnChar("t", "free_software_3"),
         OnClass("delimiters", "delimited"),
         OnClass("everything", "not-delimited")>>) @@
    ("free_software_3" :> <<OnChar("w", "free_software_4"),
         OnClass("delimiters", "delimited"),
         OnClass("everything", "not-delimited")>>) @@
    ("free_software_4" :> <<OnChar("a", "free_software_5"),
         OnClass("delimiters", "delimited"),
         OnClass("everything", "not-delimited")>>) @@
    ("free_software_5" :> <<OnChar("r", "free_software_6"),
         OnClass("delimiters", "delimited"),
         OnClass("everything", "not-delimited")>>) @@
    ("free_software_6" :> <<OnChar("e", "free_software_7"),
         OnClass("delimiters", "delimited"),
         OnClass("everything", "not-delimited")>>) @@
    ("free_software_7" :> <<OnClassDo("delimiters", "isSpam", "recordSpam"),
         OnClass("everything", "not-delimited")>>)

\* lines 413-420 of main()
FreeTrialsRules ==
    ("free_trials_0" :> <<OnChar("r", "free_trials_1"),
         OnClass("delimiters", "delimited"),
         OnClass("everything", "not-delimited")>>) @@
    ("free_trials_1" :> <<OnChar("i", "free_trials_2"),
         OnClass("delimiters", "delimited"),
         OnClass("everything", "not-delimited")>>) @@
    ("free_trials_2" :> <<OnChar("a", "free_trials_3"),
         OnClass("delimiters", "delimited"),
         OnClass("everything", "not-delimited")>>) @@
    ("free_trials_3" :> <<OnChar("l", "free_trials_4"),
         OnClass("delimiters", "delimited"),
         OnClass("everything", "not-delimited")>>) @@
    ("free_trials_4" :> <<OnChar("s", "free_trials_5"),
         OnClass("delimiters", "delimited"),
         OnClass("everything", "not-delimited")>>) @@
    ("free_trials_5" :> <<OnClassDo("delimiters", "isSpam", "recordSpam"),
         OnClass("everything", "not-delimited")>>)

\* lines 422-431 of main()
FreeVacationRules ==
    ("free_vacation_0" :> <<OnChar("a", "free_vacation_1"),
         OnClass("delimiters", "delimited"),
         OnClass("everything", "not-delimited")>>) @@
    ("free_vacation_1" :> <<OnChar("c", "free_vacation_2"),
         OnClass("delimiters", "delimited"),
         OnClass("everything", "not-delimited")>>) @@
    ("free_vacation_2" :> <<OnChar("a", "free_vacation_3"),
         OnClass("delimiters", "delimited"),
         OnClass("everything", "not-delimited")>>) @@
    ("free_vacation_3" :> <<OnChar("t", "free_vacation_4"),
         OnClass("delimiters", "delimited"),
         OnClass("everything", "not-delimited")>>) @@
    ("free_vacation_4" :> <<OnChar("i", "free_vacation_5"),
         OnClass("delimiters", "delimited"),
         OnClass("everything", "not-delimited")>>) @@
    ("free_vacation_5" :> <<OnChar("o", "free_vacation_6"),
         OnClass("delimiters", "delimited"),
         OnClass("everything", "not-delimited")>>) @@
    ("free_vacation_6" :> <<OnChar("n", "free_vacation_7"),
         OnClass("delimiters", "delimited"),
         OnClass("everything", "not-delimited")>>) @@
    ("free_vacation_7" :> <<OnClassDo("delimiters", "isSpam", "recordSpam"),
         OnClass("everything", "not-delimited")>>)

\* Rules, were msgdig[1] to skip what follows the digits instead of falling
\* back to start
RulesJunkAfterId ==
    ("msgdig_1" :> <<OnChar("<", "closeDocID_0"),
         OnClass("whitespace", "msgdig_1"),
         OnClass("everything", "msgdig_1")>>) @@
    HeaderRules @@ SubjectRules @@ ScanRules @@ IsSpamRules @@ CloseDocRules @@
    CloseDocSpamRules @@ WinRules @@ WinnersRules @@ WinningsRules @@
    FreeStuffRules @@ FreeAccessRules @@ FreeSoftwareRules @@ FreeTrialsRules @@
    FreeVacationRules

\* Rules, were msgdig[1] to take every further digit into the identifier
RulesAnyDigits ==
    ("msgdig_1" :> <<OnChar("<", "closeDocID_0"),
         OnClass("whitespace", "msgdig_1"),
         OnClassDo("digits", "msgdig_1", "handleMIDdig"),
         OnClass("everything", "start")>>) @@
    HeaderRules @@ SubjectRules @@ ScanRules @@ IsSpamRules @@ CloseDocRules @@
    CloseDocSpamRules @@ WinRules @@ WinnersRules @@ WinningsRules @@
    FreeStuffRules @@ FreeAccessRules @@ FreeSoftwareRules @@ FreeTrialsRules @@
    FreeVacationRules

\* Rules, were closeDoc[0] to fall back to start as the marker states of the
\* header do
RulesCloseToStart ==
    ("closeDoc_0" :> <<OnChar("/", "closeDoc_1"), OnClass("everything", "start")>>) @@
    HeaderRules @@ SubjectRules @@ ScanRules @@ IsSpamRules @@ CloseDocRules @@
    CloseDocSpamRules @@ WinRules @@ WinnersRules @@ WinningsRules @@
    FreeStuffRules @@ FreeAccessRules @@ FreeSoftwareRules @@ FreeTrialsRules @@
    FreeVacationRules

\* the automaton: every DFAstate declared in main() with its transitions
Rules ==
    HeaderRules @@ SubjectRules @@ ScanRules @@ IsSpamRules @@ CloseDocRules @@
    CloseDocSpamRules @@ WinRules @@ WinnersRules @@ WinningsRules @@
    FreeStuffRules @@ FreeAccessRules @@ FreeSoftwareRules @@ FreeTrialsRules @@
    FreeVacationRules

States == DOMAIN Rules

(***************************************************************************)
(* DFAstate::transitionWithChar.                                           *)
(***************************************************************************)
\* the for loop over the transitions, from the i-th on: the index of the
\* first one whose comparator accepts c, or 0 when the loop runs to the end
RECURSIVE FirstAccepting(_, _, _)
FirstAccepting(transitions, c, i) ==
    IF i > Len(transitions) THEN 0
    ELSE IF onSymbols(transitions[i].onSymbols, c, transitions[i].comparedTo) THEN i
    ELSE FirstAccepting(transitions, c, i + 1)

\* transitionWithChar, were the last accepting transition to win
transitionWithLastChar(state, c) ==
    LET transitions == Rules[state]
        accepting == {i \in 1..Len(transitions) :
                        onSymbols(transitions[i].onSymbols, c, transitions[i].comparedTo)}
        i == CHOOSE k \in accepting : \A j \in accepting : j <= k
    IN  IF accepting = {}
        THEN [to |-> "NULL", doing |-> "NULL"]
        ELSE [to |-> transitions[i].to, doing |-> transitions[i].doing]

\* the body of transitionWithChar on the member transitions of a state: the
\* target and the action of the transition taken, the target NULL when the
\* list is empty or none of its transitions accepts c
transitionFrom(transitions, c) ==
    LET i == FirstAccepting(transitions, c, 1)
    IN  IF transitions = <<>> \/ i = 0
        THEN [to |-> "NULL", doing |-> "NULL"]
        ELSE [to |-> transitions[i].to, doing |-> transitions[i].doing]

\* the transition taken from state on c
transitionWithChar(state, c) == transitionFrom(Rules[state], c)

\* transitionWithChar tabulated: the automaton is built once and never changes
Delta == [state \in States |-> [c \in (0 - 128)..255 |-> transitionWithChar(state, c)]]

(***************************************************************************)
(* The edge actions (typedef charConsumer) on the two globals.             *)
(***************************************************************************)
newMsg(c, num) == 0

handleMIDdig(c, num) == num * 10 + (c - Chr("0"))

\* recordSpam, were it to push at the front
recordSpamFront(c, list, num) == <<num>> \o list

recordSpam(c, list, num) == Append(list, num)

\* NumAfter, were recordSpam to clear the identifier it has recorded
NumAfterClearing(doing, c, num) ==
    CASE doing = "newMsg"       -> newMsg(c, num)
      [] doing = "handleMIDdig" -> handleMIDdig(c, num)
      [] doing = "recordSpam"   -> 0
      [] OTHER                  -> num

\* currentMessageNum after the call i->doing(c)
NumAfter(doing, c, num) ==
    CASE doing = "newMsg"       -> newMsg(c, num)
      [] doing = "handleMIDdig" -> handleMIDdig(c, num)
      [] OTHER                  -> num

\* spamMessages after the call i->doing(c)
ListAfter(doing, c, list, num) ==
    IF doing = "recordSpam" THEN recordSpam(c, list, num) ELSE list

(***************************************************************************)
(* State.                                                                  *)
(***************************************************************************)
VARIABLES
    currentstate,       \* DFAstate *currentstate: a state name, or "NULL"
    currentMessageNum,  \* int currentMessageNum
    spamMessages,       \* list<int> spamMessages
    input,              \* int input: the value of the last file.get()
    pc,                 \* where main() is: "scan", "report", "exit", "failed"
    reported,           \* the identifiers written by the report loop
    ends,               \* how many times <end> was written
    errOut,             \* the symbols written to cerr
    file,               \* the text of the file, where a specification fixes it
    pos,                \* how many of its symbols file.get() has returned
    \* what an observer of the input text records
    cands,              \* the prefixes of a dictionary phrase the body text ends
                        \* with, each begun at a boundary
    closeCands,         \* the prefixes of </DOC> the body text ends with
    matched,            \* the phrases the last symbol completed
    hits,               \* phrases completed in this body so far (capped)
    appendsSinceReset,  \* appends to spamMessages since newMsg last ran
    skipTail,           \* what the text read since </DOCID> ends with
    skipCands,          \* the prefixes of </DOC> the text skipped ends with
    \* the writer of well-formed input
    genPhase,           \* the part of a record it is writing
    genRest,            \* what is left of the marker it is writing
    genId,              \* the value of the identifier digits it wrote
    genDigits,          \* how many identifier digits it wrote
    genGarbage,         \* whether it wrote text outside a record
    genLongId,          \* whether it wrote an identifier of three or more digits
    genFirst,           \* whether no record has closed yet
    genSpaces           \* the places of a header where it wrote whitespace

progVars ==
    <<currentstate, currentMessageNum, spamMessages, input, pc, reported, ends, errOut>>
fileVars == <<file, pos>>
obsVars ==
    <<cands, closeCands, matched, hits, appendsSinceReset, skipTail, skipCands>>
genVars ==
    <<genPhase, genRest, genId, genDigits, genGarbage, genLongId, genFirst, genSpaces>>
vars == <<progVars, fileVars, obsVars, genVars>>

(***************************************************************************)
(* The input text as its reader sees it: the record grammar and the        *)
(* dictionary of flagged phrases.                                          *)
(***************************************************************************)
Phrases ==
    { Str(<<"w","i","n">>),
      Str(<<"w","i","n","n","e","r","s">>),
      Str(<<"w","i","n","n","i","n","g","s">>),
      Str(<<"f","r","e","e"," ","a","c","c","e","s","s">>),
      Str(<<"f","r","e","e"," ","s","o","f","t","w","a","r","e">>),
      Str(<<"f","r","e","e"," ","t","r","i","a","l","s">>),
      Str(<<"f","r","e","e"," ","v","a","c","a","t","i","o","n">>) }

OpenMarker == Str(<<"<","D","O","C",">">>)
OpenIdMarker == Str(<<"<","D","O","C","I","D",">","m","s","g">>)
CloseIdMarker == Str(<<"<","/","D","O","C","I","D",">">>)
CloseMarker == Str(<<"<","/","D","O","C",">">>)

PrefixesOf(text) == {SubSeq(text, 1, k) : k \in 0..Len(text)}
PhrasePrefixes == UNION {PrefixesOf(p) : p \in Phrases}

\* a boundary of a flagged phrase: a space or a double quote
IsBoundary(c) == c \in {Chr(" "), Chr("\"")}

\* the phrase prefixes the text ends with once c is added to it
PhraseStep(cs, c) ==
    ({Append(s, c) : s \in cs} \cap PhrasePrefixes)
        \cup (IF IsBoundary(c) THEN {<< >>} ELSE {})

\* the prefixes of </DOC> the text ends with once c is added to it
CloseStep(cs, c) == {Append(s, c) : s \in cs \cup {<< >>}} \cap PrefixesOf(CloseMarker)

\* What the text read since the '>' of </DOCID> ends with:
\*   "line"  a line with no newline yet,
\*   "nl"    a newline and then spaces, tabs and carriage returns only,
\*   "body"  such a newline, such blanks, and one more newline: the blank line
\*           is over;
\* "off" elsewhere.  closes tells that the symbol c is that '>'.
SkipStep(tail, closes, c) ==
    CASE closes                          -> "line"
      [] tail \in {"off", "body"}         -> "off"
      [] c = Chr("\n")                    -> IF tail = "nl" THEN "body" ELSE "nl"
      [] c \in {Chr(" "), Chr("\t"), Chr("\r")} -> tail
      [] OTHER                            -> "line"

\* the states of the header and of the subject line; the others scan a body
HeaderStates == DOMAIN HeaderRules \cup DOMAIN SubjectRules
BodyStates == States \ HeaderStates
InBody(state) == state \in BodyStates
\* the states of a body that is already flagged
Flagged(state) == state \in DOMAIN IsSpamRules \cup DOMAIN CloseDocSpamRules

\* the cap on the count of completed phrases
MaxHits == 2

(***************************************************************************)
(* The input alphabets of the model.                                       *)
(***************************************************************************)
\* the first and the last digit
InputDigits == {Chr("0"), Chr("9")}

\* every character the table names, one other letter, the whitespace that is
\* no boundary, and one value above 127
InputChars ==
    { Chr(s) : s \in {"<", ">", "/", "D", "O", "C", "I", "m", "s", "g", " ", "\"",
                      "\n", "\t", "w", "i", "n", "e", "r", "f", "a", "c", "o", "t",
                      "v", "l", "x"} }
        \cup InputDigits \cup {200}

(***************************************************************************)
(* Init: main() up to the do loop, with nothing read yet.                  *)
(***************************************************************************)
InitScan ==
    /\ currentstate = "start"
    /\ currentMessageNum = 0
    /\ spamMessages = << >>
    /\ input = 0
    /\ pc = "scan"
    /\ reported = << >>
    /\ ends = 0
    /\ errOut = << >>
    /\ pos = 0
    /\ cands = {}
    /\ closeCands = {}
    /\ matched = {}
    /\ hits = 0
    /\ appendsSinceReset = 0
    /\ skipTail = "off"
    /\ skipCands = {}
    /\ genPhase = "outside"
    /\ genRest = << >>
    /\ genId = 0
    /\ genDigits = 0
    /\ genGarbage = FALSE
    /\ genLongId = FALSE
    /\ genFirst = TRUE
    /\ genSpaces = {}

\* the text of the file is left open: file.get() may return any symbol
Init == InitScan /\ file = << >>

(***************************************************************************)
(* The driver loop.                                                        *)
(***************************************************************************)
\* one iteration of the do loop in which file.get() returns the symbol c, the
\* automaton built by main() being tabulated in table
ReadFrom(table, c) ==
    \E ch \in ToChar(c) :
    LET taken == table[currentstate][ch]
        body  == InBody(currentstate)
        done  == IF body /\ IsBoundary(c) THEN cands \cap Phrases ELSE {}
    IN  /\ pc = "scan"
        /\ currentstate # "NULL"
        /\ taken.doing = "recordSpam" => Len(spamMessages) < MaxFlagged
        /\ input' = c
        /\ currentMessageNum' = NumAfter(taken.doing, ch, currentMessageNum)
        /\ spamMessages' = ListAfter(taken.doing, ch, spamMessages, currentMessageNum)
        /\ currentstate' = taken.to
        /\ UNCHANGED <<pc, reported, ends, errOut>>
        /\ cands' = IF ~InBody(taken.to) THEN {}
                    ELSE IF body THEN PhraseStep(cands, c) ELSE {<< >>}
        /\ closeCands' = IF body THEN CloseStep(closeCands, c) ELSE {}
        /\ matched' = done
        /\ hits' = IF ~body THEN 0
                   ELSE IF done # {} /\ hits < MaxHits THEN hits + 1 ELSE hits
        /\ appendsSinceReset' =
               CASE taken.doing = "newMsg"     -> 0
                 [] taken.doing = "recordSpam" -> appendsSinceReset + 1
                 [] OTHER                      -> appendsSinceReset
        /\ skipTail' =
               SkipStep(skipTail,
                        currentstate = "closeDocID_6" /\ taken.to = "closeDocID_7", c)
        /\ skipCands' = IF skipTail \in {"line", "nl"}
                        THEN CloseStep(skipCands, c) ELSE {}

\* one iteration of the do loop on the automaton that main() builds
ReadChar(c) == ReadFrom(Delta, c)

\* ReadEOF, were the value file.get() returned passed on to transitionWithChar
\* whatever its sign
ReadEOFSubmitted ==
    /\ pc = "scan"
    /\ currentstate # "NULL"
    /\ input' = EOF
    /\ ends' = ends + 1
    /\ pc' = "report"
    /\ currentstate' = Delta[currentstate][EOF].to
    /\ UNCHANGED <<currentMessageNum, spamMessages, reported, errOut>>
    /\ UNCHANGED obsVars

\* the iteration in which file.get() returns EOF: <end> is written and the
\* loop is left
ReadEOF ==
    /\ pc = "scan"
    /\ currentstate # "NULL"
    /\ input' = EOF
    /\ ends' = ends + 1
    /\ pc' = "report"
    /\ UNCHANGED <<currentstate, currentMessageNum, spamMessages, reported, errOut>>
    /\ UNCHANGED obsVars

\* Fail, were the loop left with break: the report would follow
FailThenReport ==
    /\ pc = "scan"
    /\ currentstate = "NULL"
    /\ errOut' = Append(errOut, input)
    /\ pc' = "report"
    /\ UNCHANGED <<currentstate, currentMessageNum, spamMessages, input, reported, ends>>
    /\ UNCHANGED obsVars

\* the iteration that finds currentstate NULL: the symbol read last is written
\* to cerr and main() returns -1
Fail ==
    /\ pc = "scan"
    /\ currentstate = "NULL"
    /\ errOut' = Append(errOut, input)
    /\ pc' = "failed"
    /\ UNCHANGED <<currentstate, currentMessageNum, spamMessages, input, reported, ends>>
    /\ UNCHANGED obsVars

\* one iteration of the report loop
ReportFront ==
    /\ pc = "report"
    /\ spamMessages # << >>
    /\ reported' = Append(reported, Head(spamMessages))
    /\ spamMessages' = Tail(spamMessages)
    /\ UNCHANGED <<currentstate, currentMessageNum, input, pc, ends, errOut>>
    /\ UNCHANGED obsVars

\* the report loop ends and main() returns 0
ReportEnd ==
    /\ pc = "report"
    /\ spamMessages = << >>
    /\ pc' = "exit"
    /\ UNCHANGED <<currentstate, currentMessageNum, spamMessages, input, reported,
                   ends, errOut>>
    /\ UNCHANGED obsVars

(***************************************************************************)
(* Spec: the file holds any text over InputChars.                          *)
(***************************************************************************)
ReadAny == (\E c \in InputChars : ReadChar(c)) /\ UNCHANGED <<fileVars, genVars>>
EndOfFile == ReadEOF /\ UNCHANGED <<fileVars, genVars>>
Report == (ReportFront \/ ReportEnd) /\ UNCHANGED <<fileVars, genVars>>

Next == ReadAny \/ EndOfFile \/ Report

Spec == Init /\ [][Next]_vars

(***************************************************************************)
(* SpecRecords: the file holds records                                     *)
(*   <DOC><DOCID>msgN</DOCID> newline subject-line blank-line body </DOC>  *)
(* one after the other, with or without other text between them, and with  *)
(* or without whitespace after <DOC>, after <DOCID> and after the digits.  *)
(***************************************************************************)
GenDigitChars == {Chr("1")}
\* text between records: a stray '<' or another character
GarbageChars == {Chr("<"), Chr("x")}
SubjectChars == {Chr(s) : s \in {"S", " ", "w", "i", "n", "<"}}
\* the whitespace that may be put into a header
WsChars == {Chr(" "), Chr("\t"), Chr("\r"), Chr("\n")}
\* a body: text without '<', so that the first </DOC> after it is its end
BodyChars == {Chr(s) : s \in {"w", "i", "n", "x", " ", "\"", "\n"}}

\* What the writer may write next, and what it then knows: c is the symbol.
\* text between two records (or before the first)
GenGarbage(c) ==
    /\ genPhase = "outside"
    /\ c \in GarbageChars
    /\ genGarbage' = TRUE
    /\ UNCHANGED <<genPhase, genRest, genId, genDigits, genLongId, genFirst, genSpaces>>

\* the '<' of <DOC>
GenOpen(c) ==
    /\ genPhase = "outside"
    /\ c = Head(OpenMarker)
    /\ genPhase' = "DOC"
    /\ genRest' = Tail(OpenMarker)
    /\ genId' = 0
    /\ genDigits' = 0
    /\ UNCHANGED <<genGarbage, genLongId, genFirst, genSpaces>>

\* the '<' of <DOCID>msg, right after <DOC>
GenOpenId(c) ==
    /\ genPhase = "DOC" /\ genRest = << >>
    /\ c = Head(OpenIdMarker)
    /\ genPhase' = "DOCID"
    /\ genRest' = Tail(OpenIdMarker)
    /\ UNCHANGED <<genId, genDigits, genGarbage, genLongId, genFirst, genSpaces>>

\* the next character of the marker being written; the last character of
\* </DOC> closes the record
GenMarker(c) ==
    /\ genRest # << >>
    /\ c = Head(genRest)
    /\ genRest' = Tail(genRest)
    /\ IF genPhase = "/DOC" /\ Tail(genRest) = << >>
       THEN genPhase' = "outside" /\ genFirst' = FALSE
       ELSE UNCHANGED <<genPhase, genFirst>>
    /\ UNCHANGED <<genId, genDigits, genGarbage, genLongId, genSpaces>>

\* one more digit of the identifier, most significant first
GenDigit(c) ==
    /\ \/ genPhase = "DOCID" /\ genRest = << >>
       \/ genPhase = "digits"
    /\ genDigits < MaxIdDigits
    /\ c \in GenDigitChars
    /\ genId' = genId * 10 + (c - Chr("0"))
    /\ genDigits' = genDigits + 1
    /\ genLongId' = (genLongId \/ genDigits + 1 > 2)
    /\ genPhase' = "digits"
    /\ UNCHANGED <<genRest, genGarbage, genFirst, genSpaces>>

\* whitespace between <DOC> and <DOCID>, between <DOCID> and msg, or between
\* the digits and </DOCID>; no digit follows whitespace
GenSpace(c) ==
    /\ c \in WsChars
    /\ \/ /\ genPhase = "DOC" /\ genRest = << >>
          /\ genPhase' = genPhase
          /\ genSpaces' = genSpaces \cup {"DOC"}
       \/ /\ genPhase = "DOCID" /\ genRest = Str(<<"m", "s", "g">>)
          /\ genPhase' = genPhase
          /\ genSpaces' = genSpaces \cup {"DOCID"}
       \/ /\ genPhase \in {"digits", "idspace"}
          /\ genPhase' = "idspace"
          /\ genSpaces' = genSpaces \cup {"digits"}
    /\ UNCHANGED <<genRest, genId, genDigits, genGarbage, genLongId, genFirst>>

\* the '<' of </DOCID>, after one digit or more
GenCloseId(c) ==
    /\ genPhase \in {"digits", "idspace"}
    /\ c = Head(CloseIdMarker)
    /\ genPhase' = "/DOCID"
    /\ genRest' = Tail(CloseIdMarker)
    /\ UNCHANGED <<genId, genDigits, genGarbage, genLongId, genFirst, genSpaces>>

\* the newline after </DOCID>
GenNewline(c) ==
    /\ genPhase = "/DOCID" /\ genRest = << >>
    /\ c = Chr("\n")
    /\ genPhase' = "subject"
    /\ UNCHANGED <<genRest, genId, genDigits, genGarbage, genLongId, genFirst, genSpaces>>

\* a character of the subject line
GenSubject(c) ==
    /\ genPhase = "subject"
    /\ c \in SubjectChars
    /\ UNCHANGED genVars

\* the newline that ends the subject line
GenSubjectEnd(c) ==
    /\ genPhase = "subject"
    /\ c = Chr("\n")
    /\ genPhase' = "blank"
    /\ UNCHANGED <<genRest, genId, genDigits, genGarbage, genLongId, genFirst, genSpaces>>

\* the blank line
GenBlank(c) ==
    /\ genPhase = "blank"
    /\ c = Chr("\n")
    /\ genPhase' = "body"
    /\ UNCHANGED <<genRest, genId, genDigits, genGarbage, genLongId, genFirst, genSpaces>>

\* a character of the body
GenBody(c) ==
    /\ genPhase = "body"
    /\ c \in BodyChars
    /\ UNCHANGED genVars

\* the '<' of </DOC>
GenClose(c) ==
    /\ genPhase = "body"
    /\ c = Head(CloseMarker)
    /\ genPhase' = "/DOC"
    /\ genRest' = Tail(CloseMarker)
    /\ UNCHANGED <<genId, genDigits, genGarbage, genLongId, genFirst, genSpaces>>

GenWrites(c) ==
    \/ GenGarbage(c) \/ GenOpen(c) \/ GenOpenId(c) \/ GenMarker(c) \/ GenDigit(c)
    \/ GenCloseId(c) \/ GenNewline(c) \/ GenSubject(c) \/ GenSubjectEnd(c)
    \/ GenBlank(c) \/ GenBody(c) \/ GenClose(c) \/ GenSpace(c)

\* the symbols the writer ever writes
GenChars ==
    GarbageChars \cup SubjectChars \cup BodyChars \cup GenDigitChars \cup WsChars
        \cup {Chr(s) : s \in {"<", ">", "/", "D", "O", "C", "I", "m", "s", "g", "\n"}}

\* an iteration of the driver loop on the next symbol of such a file
ReadRecords ==
    (\E c \in GenChars : GenWrites(c) /\ ReadChar(c)) /\ UNCHANGED fileVars

\* the file ends between two records
GenEnd == genPhase = "outside" /\ EndOfFile

NextRecords == ReadRecords \/ GenEnd \/ Report

SpecRecords == Init /\ [][NextRecords]_vars

(***************************************************************************)
(* SpecFile: the file is a text fixed from the start, read symbol by       *)
(* symbol to its end; main() runs on without pause.                        *)
(***************************************************************************)
\* the longest of the files made of any symbols
MaxFileLen == 3
FileChars == {Chr("<"), Chr("x"), 200}

\* record 9 and then record 0, both with a flagged phrase in the body
TwoRecords ==
    OpenMarker \o OpenIdMarker \o <<Chr("9")>> \o CloseIdMarker
        \o Str(<<"\n", "\n", " ", "w", "i", "n", " ">>) \o CloseMarker
        \o OpenMarker \o OpenIdMarker \o <<Chr("0")>> \o CloseIdMarker
        \o Str(<<"\n", "\n", "\"", "w", "i", "n", "\"">>) \o CloseMarker

\* the files: every text over FileChars up to MaxFileLen symbols, and the two
\* records cut off anywhere
Files ==
    UNION {[1..k -> FileChars] : k \in 0..MaxFileLen} \cup PrefixesOf(TwoRecords)

InitFile == InitScan /\ file \in Files

\* file.get() returns the next symbol of the file
ReadFile ==
    /\ pos < Len(file)
    /\ ReadChar(file[pos + 1])
    /\ pos' = pos + 1
    /\ UNCHANGED <<file, genVars>>

\* file.get() returns EOF once every symbol has been returned
EndFile == pos = Len(file) /\ EndOfFile

NextFile == ReadFile \/ EndFile \/ Report

SpecFile == InitFile /\ [][NextFile]_vars /\ WF_vars(NextFile)

(***************************************************************************)
(* SpecDefect: the driver and transitionWithChar on an automaton built     *)
(* with one addTransition call left out, the catch-all of closeDocSpam[0]  *)
(* (line 313).  On the automaton main() builds no state lacks a transition *)
(* (C8_Coverage), so this is the only way to run the branch that handles   *)
(* NULL.                                                                   *)
(***************************************************************************)
DefectState == "closeDocSpam_0"

DefectRules ==
    [state \in States |->
        IF state = DefectState
        THEN SubSeq(Rules[state], 1, Len(Rules[state]) - 1)
        ELSE Rules[state]]

DeltaDefect ==
    [state \in States |->
        [c \in (0 - 128)..255 |-> transitionFrom(DefectRules[state], c)]]

\* enough to write a flagged record and stray text in it
DefectChars ==
    { Chr(s) : s \in {"<", ">", "/", "D", "O", "C", "I", "m", "s", "g", "\n", " ",
                      "w", "i", "n", "9", "x"} }

ReadDefect ==
    (\E c \in DefectChars : ReadFrom(DeltaDefect, c)) /\ UNCHANGED <<fileVars, genVars>>

Failure == Fail /\ UNCHANGED <<fileVars, genVars>>

NextDefect == ReadDefect \/ Failure \/ EndOfFile \/ Report

SpecDefect == Init /\ [][NextDefect]_vars

(***************************************************************************)
(* The claims.                                                             *)
(***************************************************************************)
\* a step of the driver loop that consumed a symbol (input' is the symbol)
ReadStep == pc = "scan" /\ pc' = "scan" /\ currentstate # "NULL"
\* a step that appended to spamMessages
Appends == Len(spamMessages') > Len(spamMessages)

Win == Str(<<"w","i","n">>)
Winners == Str(<<"w","i","n","n","e","r","s">>)
FreeSoftware == Str(<<"f","r","e","e"," ","s","o","f","t","w","a","r","e">>)

\* C1: in a file of consecutive well-formed records with identifiers of one or
\* two digits, every append to spamMessages happens while the body of a
\* record is being read and appends the identifier of that very record.
C1_OwnBodyOnly ==
    [][(Appends /\ ~genGarbage' /\ ~genLongId' /\ genSpaces' = {})
          => (genPhase = "body" /\ spamMessages' = Append(spamMessages, genId))]_vars

\* C2: an append to spamMessages happens only on a boundary character that
\* ends one of the seven dictionary phrases, the phrase itself begun at a
\* boundary or at the start of the body.
C2_AppendOnlyOnPhrase == [][Appends => matched' # {}]_vars

\* C3: in a body not yet flagged, the boundary character that ends a
\* dictionary phrase begun at a boundary appends currentMessageNum and enters
\* isSpam; winners is completed from the end of its own chain.
C3_PhraseFlags ==
    [][(ReadStep /\ InBody(currentstate) /\ ~Flagged(currentstate) /\ matched' # {})
          => /\ spamMessages' = Append(spamMessages, currentMessageNum)
             /\ currentstate' = "isSpam"
             /\ Winners \in matched' => currentstate = "winners_2"
             /\ Win \in matched' => currentstate = "win_2"]_vars

\* a quoted "winners" has just flagged a body
C3_Witness ==
    /\ currentstate = "isSpam" /\ matched = {Winners} /\ hits = 1
    /\ input = Chr("\"") /\ spamMessages = <<currentMessageNum>>

\* C4: at most one append to spamMessages between two runs of newMsg, that is
\* per record, however many flagged phrases the body holds.
C4_OneAppendPerRecord == appendsSinceReset <= 1

\* a body in which free software was the second phrase completed, flagged once
C4_Witness ==
    /\ hits = 2 /\ matched = {FreeSoftware} /\ appendsSinceReset = 1
    /\ currentstate = "isSpam" /\ Len(spamMessages) = 1

\* C5: once <DOC><DOCID>msg d1..dn </DOCID> is read (n >= 1), currentMessageNum
\* is the decimal value of d1..dn and the automaton is past the identifier.
C5_IdentifierValue ==
    (genPhase = "/DOCID" /\ genRest = << >> /\ genFirst /\ ~genGarbage /\ genSpaces = {})
        => (currentMessageNum = genId /\ currentstate = "closeDocID_7")

\* C6: whenever the body text read ends with </DOC>, flagged or not, the
\* automaton is back in start.
C6_CloseMarkerCloses == CloseMarker \in closeCands => currentstate = "start"

\* C7: after stray text outside a record, '<' included, the <DOC> of the
\* record that follows is recognized and its identifier extracted, as if the
\* file began at that record.
C7_Resynchronizes ==
    /\ (genFirst /\ genPhase = "DOC" /\ genRest = << >>) => currentstate = "openDoc_4"
    /\ (genFirst /\ genPhase = "/DOCID" /\ genRest = << >> /\ ~genLongId /\ genSpaces = {})
          => (currentMessageNum = genId /\ currentstate = "closeDocID_7")

\* the states with a symbol that no transition of theirs accepts
Uncovered ==
    {s \in States : \E c \in Symbols : \E ch \in ToChar(c) :
        \A k \in 1..Len(Rules[s]) :
            ~onSymbols(Rules[s][k].onSymbols, ch, Rules[s][k].comparedTo)}

\* C8: every state the scan reaches has, for each of the 256 symbols, a
\* transition that accepts it: the scan never reaches NULL.
C8_Coverage == currentstate # "NULL" /\ currentstate \notin Uncovered

\* a symbol above 127 was consumed in a body and the scan goes on
C8_Witness == currentstate = "not-delimited" /\ input = 200 /\ pc = "scan"

\* the effect of the action named doing, run once on symbol ch
RanOnce(doing, ch) ==
    CASE doing = "newMsg" ->
            currentMessageNum' = 0 /\ spamMessages' = spamMessages
      [] doing = "handleMIDdig" ->
            /\ currentMessageNum' = currentMessageNum * 10 + (ch - Chr("0"))
            /\ spamMessages' = spamMessages
      [] doing = "recordSpam" ->
            /\ spamMessages' = Append(spamMessages, currentMessageNum)
            /\ currentMessageNum' = currentMessageNum
      [] OTHER ->
            currentMessageNum' = currentMessageNum /\ spamMessages' = spamMessages

\* C9: each step takes the first transition, in the order added, whose
\* comparator accepts the symbol: that one's action runs once and its target
\* becomes current, whatever later transitions would accept too.
C9_FirstMatch ==
    [][ReadStep =>
          /\ \E ch \in ToChar(input') :
               LET rs == Rules[currentstate]
                   ok(k) == onSymbols(rs[k].onSymbols, ch, rs[k].comparedTo)
               IN  \E k \in 1..Len(rs) :
                      /\ ok(k) /\ \A j \in 1..(k - 1) : ~ok(j)
                      /\ currentstate' = rs[k].to
                      /\ RanOnce(rs[k].doing, ch)
          /\ (currentstate = "delimited" /\ input' = Chr("<"))
                => currentstate' = "closeDoc_0"
          /\ (currentstate = "win_2" /\ IsBoundary(input'))
                => spamMessages' = Append(spamMessages, currentMessageNum)]_vars

\* "win" followed by a space has just flagged a body
C9_Witness ==
    /\ currentstate = "isSpam" /\ matched = {Win} /\ input = Chr(" ")
    /\ hits = 1 /\ spamMessages # << >>

\* the states of the phrase chains
PhraseChainStates ==
    DOMAIN WinRules \cup DOMAIN WinnersRules \cup DOMAIN WinningsRules
        \cup DOMAIN FreeStuffRules \cup DOMAIN FreeAccessRules
        \cup DOMAIN FreeSoftwareRules \cup DOMAIN FreeTrialsRules
        \cup DOMAIN FreeVacationRules

\* C10: in a phrase-chain state, a symbol that neither continues nor completes
\* a phrase leads where not-delimited leads on that symbol, and runs no action.
C10_FallbackAsNotDelimited ==
    currentstate \in PhraseChainStates =>
        \A c \in Symbols : \A ch \in ToChar(c) :
            LET taken == Delta[currentstate][ch]
            IN  (taken.to \notin PhraseChainStates /\ taken.doing # "recordSpam")
                   => (taken.to = Delta["not-delimited"][ch].to /\ taken.doing = "NULL")

\* the two states that skip the text between </DOCID> and the body
SkipStates == DOMAIN SubjectRules

\* C11 as stated: after </DOCID>, once the newline that ends the line being
\* skipped is read, the automaton is in the body state delimited.
C11_BodyAfterNewline ==
    (skipTail = "nl" /\ input = Chr("\n")) => currentstate = "delimited"

\* C11, amended: after </DOCID> the automaton skips text until a newline is
\* followed by spaces, tabs and carriage returns only and by one more newline;
\* it is in closeDocID_7 inside a line, in subject after a newline and blanks,
\* and in delimited, the body state where a phrase and </DOC> may begin, right
\* after that second newline and not before.
C11_BodyAfterBlankLine ==
    /\ skipTail = "line" => currentstate = "closeDocID_7"
    /\ skipTail = "nl" => currentstate = "subject"
    /\ skipTail = "body" => currentstate = "delimited"
    /\ currentstate \in SkipStates => skipTail \in {"line", "nl"}

\* the newline of a line of blanks has just opened the body of record 9
C11_Witness ==
    /\ skipTail = "body" /\ currentstate = "delimited" /\ input = Chr("\n")
    /\ cands = {<< >>} /\ currentMessageNum = 9

\* whether list begins with the entries of old, in their order
Extends(list, old) ==
    Len(list) >= Len(old) /\ SubSeq(list, 1, Len(old)) = old

\* C12: while the file is scanned spamMessages only grows at its end, and the
\* report writes its entries from the front on, so the identifiers come out in
\* the order in which their records were flagged and closed, not sorted.
C12_AppendOrder ==
    [][/\ pc' = "scan" => Extends(spamMessages', spamMessages)
       /\ (pc = "scan" /\ pc' = "report")
             => (spamMessages' = spamMessages /\ reported' = << >>)
       /\ pc = "report" => reported' \o spamMessages' = reported \o spamMessages]_vars

\* record 9 was flagged before record 0, and the report wrote 9 before 0
C12_Witness == pc = "exit" /\ reported = <<9, 0>> /\ spamMessages = << >>

\* C13: currentMessageNum becomes 0 when the '>' of <DOC> is consumed in
\* openDoc_3; apart from that only a digit consumed in msg_2 or msgdig_0
\* changes it, to ten times its value plus the digit.
C13_IdFrame ==
    [][/\ (ReadStep /\ currentstate = "openDoc_3" /\ input' = Chr(">"))
             => currentMessageNum' = 0
       /\ currentMessageNum' # currentMessageNum
             => /\ ReadStep
                /\ \/ currentstate = "openDoc_3" /\ input' = Chr(">")
                   \/ /\ currentstate \in {"msg_2", "msgdig_0"}
                      /\ input' \in Chr("0")..Chr("9")
                      /\ currentMessageNum'
                             = currentMessageNum * 10 + (input' - Chr("0"))]_vars

\* the <DOC> of a second record has cleared the identifier 99 of the first,
\* which was flagged
C13_Witness ==
    /\ currentstate = "openDoc_4" /\ input = Chr(">")
    /\ currentMessageNum = 0 /\ spamMessages = <<99>>

\* C14: on a finite file each iteration of the loop takes the next symbol of
\* the file and looks it up once in the current state; EOF is returned only
\* when every symbol was taken, is not looked up, writes <end> once and ends
\* the loop; the report then writes out spamMessages and main() returns.
C14_DriverTerminates ==
    /\ [][ReadStep =>
             /\ pos' = pos + 1 /\ input' = file[pos']
             /\ \E ch \in ToChar(input') :
                    currentstate' = Delta[currentstate][ch].to]_vars
    /\ [][(pc = "scan" /\ pc' # "scan")
             => /\ pos = Len(file) /\ pos' = pos /\ input' = EOF
                /\ ends' = 1 /\ pc' = "report"
                /\ currentstate' = currentstate
                /\ currentMessageNum' = currentMessageNum
                /\ spamMessages' = spamMessages]_vars
    /\ [][pc # "scan"
             => /\ reported' \o spamMessages' = reported \o spamMessages
                /\ ends' = ends /\ pos' = pos /\ input' = input]_vars
    /\ [](pc = "scan" => ends = 0)
    /\ [](pc = "exit" => (ends = 1 /\ pos = Len(file) /\ spamMessages = << >>))
    /\ <>(pc = "exit")

\* the file of two flagged records was read to its end and reported
C14_Witness ==
    /\ pc = "exit" /\ file = TwoRecords /\ pos = Len(TwoRecords)
    /\ ends = 1 /\ reported = <<9, 0>>

\* C15: when no transition of the current state accepts the symbol read,
\* currentstate becomes NULL; the next iteration reads nothing more, writes
\* that symbol to cerr and ends main(): nothing is ever reported, whatever
\* spamMessages holds, and <end> is not written.
C15_FatalUnhandled ==
    /\ [][ReadStep =>
             (currentstate' = "NULL"
                <=> \E ch \in ToChar(input') :
                       FirstAccepting(DefectRules[currentstate], ch, 1) = 0)]_vars
    /\ [][(pc = "scan" /\ currentstate = "NULL")
             => /\ pc' = "failed" /\ input' = input /\ errOut' = <<input>>
                /\ spamMessages' = spamMessages /\ reported' = reported
                /\ ends' = ends]_vars
    /\ [][pc # "failed"]_vars
    /\ [](pc = "failed" => (reported = << >> /\ ends = 0 /\ errOut = <<input>>))
    /\ [](errOut # << >> => pc = "failed")

\* record 9 was flagged, and then 'x' after the '<' in its body ended the run
C15_Witness ==
    /\ pc = "failed" /\ currentstate = "NULL" /\ spamMessages = <<9>>
    /\ reported = << >> /\ errOut = <<Chr("x")>>

\* the header of the first record of a file that begins with it
FirstHeader == genFirst /\ ~genGarbage

\* C16: whitespace written after <DOC>, after <DOCID> or after the digits
\* changes nothing: with it as without it the automaton is in openDoc_4 after
\* <DOC>, in openDocID_6 after <DOCID>, and after </DOCID> in closeDocID_7
\* with the identifier written (back in start if the identifier has three
\* digits or more); and a flagged record is flagged once under that identifier.
C16_WhitespaceTolerance ==
    FirstHeader =>
        /\ (genPhase = "DOC" /\ genRest = << >>)
              => (currentstate = "openDoc_4" /\ currentMessageNum = 0)
        /\ (genPhase = "DOCID" /\ genRest = Str(<<"m", "s", "g">>))
              => (currentstate = "openDocID_6" /\ currentMessageNum = 0)
        /\ (genPhase = "/DOCID" /\ genRest = << >>)
              => IF genLongId THEN currentstate = "start"
                 ELSE currentstate = "closeDocID_7" /\ currentMessageNum = genId
        /\ (genPhase \in {"subject", "blank", "body", "/DOC"} /\ ~genLongId)
              => (currentMessageNum = genId /\ spamMessages \in {<< >>, <<genId>>})

\* record 11, written with whitespace in all three places, has been flagged
C16_Witness ==
    /\ FirstHeader /\ genSpaces = {"DOC", "DOCID", "digits"} /\ genPhase = "body"
    /\ currentstate = "isSpam" /\ spamMessages = <<11>>

\* the states that recognize the markers of a header
MarkerStates == DOMAIN HeaderRules \ {"start"}

\* C17: in a marker state of the header, a symbol that none of the state's
\* transitions other than the catch-all accepts leads to start and runs no
\* action; no symbol there leads to NULL or appends to spamMessages.
C17_HeaderFallback ==
    currentstate \in MarkerStates =>
        \A c \in Symbols : \A ch \in ToChar(c) :
            LET rs == Rules[currentstate]
                taken == Delta[currentstate][ch]
                expected == \E k \in 1..Len(rs) :
                               /\ rs[k].onSymbols # "everything"
                               /\ onSymbols(rs[k].onSymbols, ch, rs[k].comparedTo)
            IN  /\ taken.to # "NULL" /\ taken.doing # "recordSpam"
                /\ ~expected => (taken.to = "start" /\ taken.doing = "NULL")

\* after record 9 was flagged, symbol 200 after the digits of msg90 has sent the
\* automaton back to start
C17_Witness ==
    /\ currentstate = "start" /\ input = 200 /\ pc = "scan"
    /\ currentMessageNum = 90 /\ spamMessages = <<9>>

\* the states between the '>' of <DOC> and the first digit of the identifier
PreDigitStates ==
    {"openDoc_4", "openDocID_0", "openDocID_1", "openDocID_2", "openDocID_3",
     "openDocID_4", "openDocID_5", "openDocID_6", "msg_0", "msg_1", "msg_2"}

\* C18: currentMessageNum is always in 0..99, and so is every identifier
\* recorded or reported: it is 0 where the first digit is taken and at most 9
\* where the second is, and no third is taken.
C18_IdBound ==
    /\ currentMessageNum \in 0..99
    /\ \A k \in 1..Len(spamMessages) : spamMessages[k] \in 0..99
    /\ \A k \in 1..Len(reported) : reported[k] \in 0..99
    /\ currentstate \in PreDigitStates => currentMessageNum = 0
    /\ currentstate = "msgdig_0" => currentMessageNum \in 0..9

\* record 99 has been flagged
C18_Witness ==
    /\ currentMessageNum = 99 /\ spamMessages = <<99>> /\ currentstate = "isSpam"

\* C19: a step taken in a body state leaves currentMessageNum alone and stays
\* in the body states, but for the '>' consumed in closeDoc_4 or
\* closeDocSpam_4, which ends a </DOC> and leads to start; the body is entered
\* from subject only.
C19_BodyIsolation ==
    [][/\ (ReadStep /\ InBody(currentstate))
             => /\ currentMessageNum' = currentMessageNum
                /\ \/ InBody(currentstate')
                   \/ /\ currentstate' = "start"
                      /\ currentstate \in {"closeDoc_4", "closeDocSpam_4"}
                      /\ input' = Chr(">")
                      /\ CloseMarker \in closeCands'
       /\ (ReadStep /\ ~InBody(currentstate) /\ InBody(currentstate'))
             => (currentstate = "subject" /\ currentstate' = "delimited")]_vars

\* the body of record 9, flagged, has just been closed by </DOC>
C19_Witness ==
    /\ currentstate = "start" /\ CloseMarker \in closeCands /\ input = Chr(">")
    /\ currentMessageNum = 9 /\ spamMessages = <<9>>

\* C20: a step taken in closeDocID_7 or subject changes neither
\* currentMessageNum nor spamMessages and stays in these two states, but for
\* the newline that follows a newline and blanks only, which leads to
\* delimited; the two states are entered by the '>' of </DOCID> only.
C20_SkipTrap ==
    [][/\ (ReadStep /\ currentstate \in SkipStates)
             => /\ currentMessageNum' = currentMessageNum
                /\ spamMessages' = spamMessages
                /\ \/ currentstate' \in SkipStates
                   \/ /\ currentstate' = "delimited"
                      /\ skipTail = "nl" /\ input' = Chr("\n")
       /\ (ReadStep /\ currentstate \notin SkipStates /\ currentstate' \in SkipStates)
             => (currentstate = "closeDocID_6" /\ input' = Chr(">"))]_vars

\* a </DOC> read after </DOCID> and one newline has been skipped as text of
\* record 9
C20_Witness ==
    /\ currentstate = "closeDocID_7" /\ CloseMarker \in skipCands
    /\ skipTail = "line" /\ currentMessageNum = 9 /\ spamMessages = << >>

=============================================================================
